---- MODULE Spec2Model ----
(***************************************************************************)
(* A model of find_winners (src/find_winners/core.py): the card model,     *)
(* the arrangement helpers, the ten category extractors of HandEvaluator,  *)
(* hand_key and find_winners.  Python lists are sequences (Python index k  *)
(* is TLA+ index k+1), dicts are functions, and a raised exception is the  *)
(* field exc of a result record.                                           *)
(***************************************************************************)
EXTENDS Integers, Sequences, FiniteSets, TLC

VARIABLES hands, pc, evaluated, hands_ranks, winners

vars == <<hands, pc, evaluated, hands_ranks, winners>>

----------------------------------------------------------------------------
(* Module constants of core.py                                             *)

SUITS == <<"C", "D", "H", "S">>

VALUES == <<"2", "3", "4", "5", "6", "7", "8", "9", "T", "J", "Q", "K", "A">>

RANKS == <<"royal_flush", "straight_flush", "four_of_a_kind", "full_house",
           "flush", "straight", "three_of_a_kind", "two_pairs", "pair",
           "high_card">>

\* The number of cards of an evaluated hand (the 5 of [:5] and of len(...) == 5)
HandSize == 5

Range(seq) == {seq[i] : i \in 1..Len(seq)}

\* A list built by a comprehension: the items of f, each evaluated once
List(f) == f \o << >>

\* A dict built by a comprehension: the values of f, each evaluated once
Dict(f) == f @@ << >>

\* str.find / list.index: the zero-based position of x in seq, -1 when absent
RECURSIVE FindFrom(_, _, _)
FindFrom(seq, x, i) ==
    IF i > Len(seq) THEN -1
    ELSE IF seq[i] = x THEN i - 1
    ELSE FindFrom(seq, x, i + 1)

Find(seq, x) == FindFrom(seq, x, 1)

\* The code point of a value symbol: Python compares the one-letter strings
\* of a dict key by code point ('2'..'9' < 'A' < 'J' < 'K' < 'Q' < 'T')
Ord ==
    [ch \in {"2", "3", "4", "5", "6", "7", "8", "9", "T", "J", "Q", "K", "A"}
        |-> CASE ch = "2" -> 50 [] ch = "3" -> 51 [] ch = "4" -> 52
              [] ch = "5" -> 53 [] ch = "6" -> 54 [] ch = "7" -> 55
              [] ch = "8" -> 56 [] ch = "9" -> 57 [] ch = "A" -> 65
              [] ch = "J" -> 74 [] ch = "K" -> 75 [] ch = "Q" -> 81
              [] ch = "T" -> 84] @@ << >>

\* A constructed Card: both symbols passed the membership tests of __init__
Card == [value : Range(VALUES), suit : Range(SUITS)]

\* VALUES.find(v) of every value symbol
ValueKey == Dict([v \in Range(VALUES) |-> Find(VALUES, v)])

\* Card.sort_key
sort_key(card) == ValueKey[card.value]

\* self.cards = None
None == << >>

\* sorted(..., reverse=True) and list.sort(reverse=True): a stable sort, the
\* elements of larger key first, equal keys in their original order.
\* gt[i][j] is "the key of seq[i] is greater than the key of seq[j]".
SortedReverse(seq, gt) ==
    LET n == Len(seq)
        before(i, j) == gt[i][j] \/ (~gt[j][i] /\ i < j)
        pos == List([i \in 1..n |->
                        1 + Cardinality({j \in 1..n : before(j, i)})])
    IN  List([k \in 1..n |-> seq[CHOOSE i \in 1..n : pos[i] = k]])

----------------------------------------------------------------------------
(* Arrangement helpers                                                     *)

arrange_by_suit(card_set) ==
    Dict([s \in Range(SUITS) |-> SelectSeq(card_set, LAMBDA c : c.suit = s)])

arrange_by_value(card_set) ==
    Dict([v \in Range(VALUES) |->
             SelectSeq(card_set, LAMBDA c : c.value = v)])

sort_by_value(card_set) ==
    SortedReverse(card_set,
        List([i \in 1..Len(card_set) |-> List([j \in 1..Len(card_set) |->
            sort_key(card_set[i]) > sort_key(card_set[j])])]))

\* items sorted by (len(item[1]), item[0]) descending; item[0] is the value
\* symbol, compared as a string; the empty lists are dropped afterwards
group_by_same_value(by_value) ==
    LET items == List([i \in 1..Len(VALUES) |->
                          [k |-> VALUES[i], lst |-> by_value[VALUES[i]]]])
        sorted == SortedReverse(items,
                     List([i \in 1..Len(items) |-> List([j \in 1..Len(items) |->
                         \/ Len(items[i].lst) > Len(items[j].lst)
                         \/ /\ Len(items[i].lst) = Len(items[j].lst)
                            /\ Ord[items[i].k] > Ord[items[j].k]])]))
        kept == SelectSeq(sorted, LAMBDA it : Len(it.lst) # 0)
    IN  List([i \in 1..Len(kept) |-> kept[i].lst])

all_same_suit(card_set) ==
    \A i \in 2..Len(card_set) : card_set[i].suit = card_set[1].suit

----------------------------------------------------------------------------
(* HandEvaluator                                                           *)

\* The fields __init__ sets before it calls evaluate()
HandEvaluator(hand) ==
    LET sorted_by_value == sort_by_value(hand)
        by_value == arrange_by_value(hand)
    IN  [hand |-> hand,
         cards |-> None,
         sorted_by_value |-> sorted_by_value,
         by_suit |-> arrange_by_suit(sorted_by_value),
         by_value |-> by_value,
         groups |-> group_by_same_value(by_value)]

\* What a call leaves behind: the value it returns, self.cards afterwards,
\* and the exception it raised ("" when it returned)
Ret(ret, cards) == [ret |-> ret, cards |-> cards, exc |-> ""]
Raise(exc, cards) == [ret |-> FALSE, cards |-> cards, exc |-> exc]

\* The for-loop of complete_hand from position i of self.sorted_by_value.
\* `card not in self.cards` compares Card objects, which define no __eq__:
\* the cards of a hand are distinct objects holding distinct codes here.
RECURSIVE complete_from(_, _, _)
complete_from(cards, sorted_by_value, i) ==
    IF i > Len(sorted_by_value) THEN cards
    ELSE IF sorted_by_value[i] \notin Range(cards)
         THEN IF Len(cards) + 1 = HandSize
              THEN Append(cards, sorted_by_value[i])
              ELSE complete_from(Append(cards, sorted_by_value[i]),
                                 sorted_by_value, i + 1)
         ELSE complete_from(cards, sorted_by_value, i + 1)

\* complete_hand without its `card not in self.cards` test
complete_hand_unchecked(cards, sorted_by_value) ==
    cards \o SubSeq(sorted_by_value, 1, HandSize - Len(cards))

complete_hand(cards, sorted_by_value) ==
    complete_from(cards, sorted_by_value, 1)

\* sequential = 'AQKJT98765432A' (as written in the source)
sequential == <<"A", "Q", "K", "J", "T", "9", "8", "7", "6", "5", "4", "3",
                "2", "A">>

\* [sequential[i:i+5] for i in range(len(sequential) - 4)]
sequences ==
    List([i \in 1..(Len(sequential) - 4) |-> SubSeq(sequential, i, i + 4)])

extract_straight(self) ==
    LET found == {i \in 1..Len(sequences) :
                     \A k \in 1..5 : Len(self.by_value[sequences[i][k]]) > 0}
    IN  IF found = {} THEN Ret(FALSE, self.cards)
        ELSE LET i == CHOOSE m \in found : \A o \in found : m <= o
             IN  Ret(TRUE, List([k \in 1..5 |->
                                    self.by_value[sequences[i][k]][1]]))

extract_straight_flush(self) ==
    LET r == extract_straight(self)
    IN  IF r.ret /\ all_same_suit(r.cards) THEN Ret(TRUE, r.cards)
        ELSE Ret(FALSE, None)

extract_royal_flush(self) ==
    LET r == extract_straight_flush(self)
    IN  IF r.ret /\ r.cards[Len(r.cards)].value = "T" THEN Ret(TRUE, r.cards)
        ELSE Ret(FALSE, None)

\* `self.groups[0][0] != n` compares a Card with an int: Card defines no
\* __eq__/__ne__, so the comparison is object identity and is always True
CardNeInt(card, n) == TRUE

extract_n_of_a_kind(self, n) ==
    IF Len(self.groups) = 0 THEN Raise("IndexError", self.cards)
    ELSE IF CardNeInt(self.groups[1][1], n) THEN Ret(FALSE, self.cards)
    \* self.cards = self.groups[0][1] is a Card (or no item at all), and
    \* complete_hand then tests membership in it
    ELSE IF Len(self.groups[1]) < 2 THEN Raise("IndexError", self.cards)
    ELSE Raise("TypeError", self.groups[1][2])

extract_four_of_a_kind(self) == extract_n_of_a_kind(self, 4)

extract_full_house(self) ==
    IF Len(self.groups) = 0 THEN Raise("IndexError", self.cards)
    ELSE IF Len(self.groups[1]) = 3
         THEN IF Len(self.groups) < 2 THEN Raise("IndexError", self.cards)
              ELSE IF Len(self.groups[2]) >= 2
                   THEN Ret(TRUE, self.groups[1] \o SubSeq(self.groups[2], 1, 2))
                   ELSE Ret(FALSE, self.cards)
         ELSE Ret(FALSE, self.cards)

extract_flush(self) ==
    LET lists == List([i \in 1..Len(SUITS) |-> self.by_suit[SUITS[i]]])
        flush == SelectSeq(lists, LAMBDA lst : Len(lst) = 5)
        sorted == SortedReverse(flush,
                     List([i \in 1..Len(flush) |-> List([j \in 1..Len(flush) |->
                         sort_key(flush[i][1]) > sort_key(flush[j][1])])]))
    IN  IF Len(flush) = 0 THEN Ret(FALSE, self.cards)
        ELSE Ret(TRUE, sorted[1])

extract_three_of_a_kind(self) == extract_n_of_a_kind(self, 3)

extract_two_pairs(self) ==
    IF Len(self.groups) = 0 THEN Raise("IndexError", self.cards)
    ELSE IF Len(self.groups[1]) = 2
         THEN IF Len(self.groups) < 2 THEN Raise("IndexError", self.cards)
              ELSE IF Len(self.groups[2]) = 2
                   THEN Ret(TRUE, complete_hand(self.groups[1] \o self.groups[2],
                                                self.sorted_by_value))
                   ELSE Ret(FALSE, self.cards)
         ELSE Ret(FALSE, self.cards)

extract_pair(self) == extract_n_of_a_kind(self, 2)

extract_high_card(self) ==
    Ret(TRUE, SubSeq(self.sorted_by_value, 1,
                     IF Len(self.sorted_by_value) < 5
                     THEN Len(self.sorted_by_value) ELSE 5))

\* getattr(self, 'extract_' + rank)()
extract_rank(self, rank) ==
    CASE rank = "royal_flush" -> extract_royal_flush(self)
      [] rank = "straight_flush" -> extract_straight_flush(self)
      [] rank = "four_of_a_kind" -> extract_four_of_a_kind(self)
      [] rank = "full_house" -> extract_full_house(self)
      [] rank = "flush" -> extract_flush(self)
      [] rank = "straight" -> extract_straight(self)
      [] rank = "three_of_a_kind" -> extract_three_of_a_kind(self)
      [] rank = "two_pairs" -> extract_two_pairs(self)
      [] rank = "pair" -> extract_pair(self)
      [] rank = "high_card" -> extract_high_card(self)

\* The for-loop of evaluate from position i of RANKS; the result is the
\* returned (rank, cards), self.cards afterwards, and the exception raised.
\* rank "None" is the `return None` after the loop.
RECURSIVE evaluate_from(_, _)
evaluate_from(self, i) ==
    IF i > Len(RANKS)
    THEN [rank |-> "None", cards |-> self.cards, exc |-> ""]
    ELSE LET r == extract_rank(self, RANKS[i])
         IN  IF r.exc # ""
             THEN [rank |-> "None", cards |-> r.cards, exc |-> r.exc]
             ELSE IF r.ret
                  THEN [rank |-> RANKS[i], cards |-> r.cards, exc |-> ""]
                  ELSE evaluate_from([self EXCEPT !.cards = r.cards], i + 1)

evaluate(self) == evaluate_from(self, 1)

----------------------------------------------------------------------------
(* hand_key and find_winners                                               *)

\* hand_key with rank = RANKS.index(rank), the position counted from the
\* strongest category instead of from the weakest
hand_key_index(hand) ==
    LET h0 == HandEvaluator(hand)
        e0 == evaluate(h0)
        e == evaluate([h0 EXCEPT !.cards = e0.cards])
    IN  IF e0.exc # "" \/ e.exc # "" \/ e.rank = "None"
        THEN [exc |-> "raised", rank |-> "None", cards |-> None, key |-> << >>]
        ELSE [exc |-> "", rank |-> e.rank, cards |-> e.cards,
              key |-> <<Find(RANKS, e.rank),
                        List([k \in 1..Len(e.cards) |->
                                 sort_key(e.cards[k])])>>]

\* HandEvaluator(hand) evaluates once inside __init__, then h.evaluate()
\* runs again on the same object; rank = len(RANKS) - RANKS.index(rank)
hand_key(hand) ==
    LET h0 == HandEvaluator(hand)
        e0 == evaluate(h0)
        e == evaluate([h0 EXCEPT !.cards = e0.cards])
    IN  IF e0.exc # "" THEN [exc |-> e0.exc, rank |-> "None", cards |-> None,
                             key |-> << >>]
        ELSE IF e.exc # "" THEN [exc |-> e.exc, rank |-> "None",
                                 cards |-> None, key |-> << >>]
        ELSE IF e.rank = "None" THEN [exc |-> "TypeError", rank |-> "None",
                                      cards |-> None, key |-> << >>]
        ELSE [exc |-> "", rank |-> e.rank, cards |-> e.cards,
              key |-> <<Len(RANKS) - Find(RANKS, e.rank),
                        List([k \in 1..Len(e.cards) |->
                                 sort_key(e.cards[k])])>>]

\* Python's < on lists of ints: the first differing item decides, a proper
\* prefix is smaller
RECURSIVE ListLt(_, _)
ListLt(a, b) ==
    IF Len(b) = 0 THEN FALSE
    ELSE IF Len(a) = 0 THEN TRUE
    ELSE IF a[1] # b[1] THEN a[1] < b[1]
    ELSE ListLt(Tail(a), Tail(b))

\* Python's > on two keys (rank, card_keys)
KeyGt(a, b) == a[1] > b[1] \/ (a[1] = b[1] /\ ListLt(b[2], a[2]))

\* Python's > on two items (key, idx) of hands_ranks
ItemGt(a, b) == KeyGt(a[1], b[1]) \/ (a[1] = b[1] /\ a[2] > b[2])

\* max_rank = hands_ranks[0] is the whole item (key, idx); the loop compares
\* each later key with it.  A key (int, list) equals an item ((int, list),
\* int) only if the int equals the tuple, which is never.
KeyEqItem(key, item) == FALSE

\* The loop `for key, idx in hands_ranks[1:]` from position i
RECURSIVE winners_from(_, _, _, _)
winners_from(sorted, max_rank, acc, i) ==
    IF i > Len(sorted) THEN acc
    ELSE IF KeyEqItem(sorted[i][1], max_rank)
         THEN winners_from(sorted, max_rank, Append(acc, sorted[i][2]), i + 1)
         ELSE acc

\* find_winners as a whole: the keys of the list comprehension, the sort,
\* the scan for the items equal to the first
keys_of(hs) == List([i \in 1..Len(hs) |-> hand_key(hs[i])])

sort_ranks(ranks) ==
    SortedReverse(ranks,
        List([i \in 1..Len(ranks) |-> List([j \in 1..Len(ranks) |->
            ItemGt(ranks[i], ranks[j])])]))

collect_winners(sorted) ==
    winners_from(sorted, sorted[1], <<sorted[1][2]>>, 2)

find_winners(hs) ==
    LET ks == keys_of(hs)
    IN  IF \E i \in 1..Len(hs) : ks[i].exc # "" THEN [exc |-> "raised",
                                                      winners |-> << >>]
        ELSE IF Len(hs) = 0 THEN [exc |-> "IndexError", winners |-> << >>]
        ELSE [exc |-> "",
              winners |-> collect_winners(
                  sort_ranks(List([i \in 1..Len(hs) |->
                                      <<ks[i].key, i - 1>>])))]

----------------------------------------------------------------------------
(* The inputs: bounded sets of hands of distinct cards                     *)

\* The largest hand dealt from the single-hand decks
MaxHandLen == 7

\* The largest number of hands given to find_winners
MaxHands == 2

C(v, s) == [value |-> v, suit |-> s]

\* The cards of picks (a set of positions of deck), in deck order
Pick(deck, picks) ==
    List([k \in 1..Cardinality(picks) |->
        deck[CHOOSE i \in picks : Cardinality({j \in picks : j < i}) = k - 1]])

Reverse(seq) == List([k \in 1..Len(seq) |-> seq[Len(seq) + 1 - k]])

\* Every choice of lo..hi cards of deck, in deck order
Deals(deck, lo, hi) ==
    {Pick(deck, picks) : picks \in
        {p \in SUBSET (1..Len(deck)) : Cardinality(p) \in lo..hi}}

\* ... and in the opposite order too (which of two cards of one value comes
\* first in the hand decides which one the extractors take)
BothOrders(hs) == hs \cup {Reverse(h) : h \in hs}

\* Eight to Ace in two suits: straights, flushes, straight flushes, pairs
DeckHigh ==
    <<C("A", "S"), C("A", "C"), C("K", "S"), C("K", "C"), C("Q", "S"),
      C("Q", "C"), C("J", "S"), C("J", "C"), C("T", "S"), C("T", "C"),
      C("9", "S"), C("9", "C"), C("8", "S"), C("8", "C")>>

\* Three values in four suits: four, three and two of a kind, full houses
DeckKind ==
    <<C("A", "C"), C("A", "D"), C("A", "H"), C("A", "S"), C("T", "C"),
      C("T", "D"), C("T", "H"), C("T", "S"), C("9", "C"), C("9", "D"),
      C("9", "H"), C("9", "S")>>

\* Ace to Six: the straights in which the Ace is low
DeckLow ==
    <<C("6", "C"), C("5", "S"), C("4", "S"), C("3", "S"), C("2", "S"),
      C("A", "S"), C("A", "C")>>

\* Hands given to find_winners alone
SingleHands ==
    BothOrders(Deals(DeckHigh, HandSize, MaxHandLen)
               \cup Deals(DeckKind, HandSize, MaxHandLen)
               \cup Deals(DeckLow, HandSize, MaxHandLen))

\* Three decks of six cards whose five-card hands meet every category the
\* evaluator returns, with different hands of equal keys among them
DeckTableA ==
    <<C("A", "S"), C("K", "S"), C("Q", "S"), C("J", "S"), C("T", "S"),
      C("9", "S")>>

DeckTableB ==
    <<C("A", "H"), C("A", "D"), C("A", "C"), C("K", "H"), C("K", "D"),
      C("Q", "S")>>

DeckTableC ==
    <<C("A", "S"), C("K", "C"), C("Q", "S"), C("J", "S"), C("T", "S"),
      C("9", "C")>>

\* Hands too short to evaluate
DeckShort == <<C("2", "C"), C("2", "D"), C("3", "C"), C("3", "D")>>

ShortHands == Deals(DeckShort, 0, HandSize - 1)

\* Hands given to find_winners together; of the short hands, one that is
\* evaluated and one whose evaluation raises
TableHands ==
    Deals(DeckTableA, HandSize, HandSize)
    \cup Deals(DeckTableB, HandSize, HandSize)
    \cup Deals(DeckTableC, HandSize, HandSize)
    \cup {SubSeq(DeckShort, 1, n) : n \in 1..2}

RECURSIVE SeqsOf(_, _)
SeqsOf(S, n) ==
    IF n = 0 THEN {<< >>}
    ELSE {Append(q, x) : q \in SeqsOf(S, n - 1), x \in S}

Inputs ==
    {<<h>> : h \in SingleHands \cup ShortHands}
    \cup UNION {SeqsOf(TableHands, n) : n \in 0..MaxHands}

----------------------------------------------------------------------------
(* The run of find_winners(hands)                                          *)

Init ==
    /\ hands \in Inputs
    /\ pc = "keys"
    /\ evaluated = << >>
    /\ hands_ranks = << >>
    /\ winners = << >>

\* One item of the list comprehension: (hand_key(hand), idx).  evaluated
\* keeps the (rank, cards) that h.evaluate() returned inside hand_key.
ComputeKey ==
    /\ pc = "keys"
    /\ Len(hands_ranks) < Len(hands)
    /\ \E idx \in {Len(hands_ranks)} :
         \E k \in {hand_key(hands[idx + 1])} :
            IF k.exc # ""
            THEN /\ pc' = "raised"
                 /\ UNCHANGED <<evaluated, hands_ranks>>
            ELSE /\ pc' = pc
                 /\ evaluated' = Append(evaluated,
                                        [rank |-> k.rank, cards |-> k.cards])
                 /\ hands_ranks' = Append(hands_ranks, <<k.key, idx>>)
    /\ UNCHANGED <<hands, winners>>

\* hands_ranks.sort(reverse=True)
SortRanks ==
    /\ pc = "keys"
    /\ Len(hands_ranks) = Len(hands)
    /\ hands_ranks' = sort_ranks(hands_ranks)
    /\ pc' = "scan"
    /\ UNCHANGED <<hands, evaluated, winners>>

\* max_rank = hands_ranks[0] and the loop after it, to the return
CollectWinners ==
    /\ pc = "scan"
    /\ IF Len(hands_ranks) = 0
       THEN pc' = "raised" /\ UNCHANGED winners
       ELSE pc' = "done" /\ winners' = collect_winners(hands_ranks)
    /\ UNCHANGED <<hands, evaluated, hands_ranks>>

Next == ComputeKey \/ SortRanks \/ CollectWinners

Spec == Init /\ [][Next]_vars

----------------------------------------------------------------------------
(* Vocabulary of the properties                                            *)

\* A hand the contract covers: at least five cards (the cards of every
\* input hand are distinct)
Valid(hand) == Len(hand) >= HandSize

AllValid == \A i \in 1..Len(hands) : Valid(hands[i])

\* The key computed for the hand of zero-based index idx
KeyAt(idx) == (CHOOSE it \in Range(hands_ranks) : it[2] = idx)[1]

\* Position of a category in the precedence order, strongest first
Precedence(rank) == Find(RANKS, rank)

\* The members of a set of integers in ascending order
Ascending(S) ==
    List([k \in 1..Cardinality(S) |->
             CHOOSE x \in S : Cardinality({y \in S : y < x}) = k - 1])

\* The poker runs of five consecutive values, highest first, Ace high and low
CyclicValues == <<"A", "K", "Q", "J", "T", "9", "8", "7", "6", "5", "4", "3",
                  "2", "A">>

Runs == List([i \in 1..10 |-> SubSeq(CyclicValues, i, i + 4)])

CountValue(hand, v) == Cardinality({c \in Range(hand) : c.value = v})

CountSuit(hand, s) == Cardinality({c \in Range(hand) : c.suit = s})

LargestCluster(hand) ==
    CHOOSE n \in 0..Len(hand) :
        /\ \E v \in Range(VALUES) : CountValue(hand, v) = n
        /\ \A v \in Range(VALUES) : CountValue(hand, v) <= n

\* The value symbols held exactly n times, and the highest of a set of them
ValuesHeld(hand, n) == {v \in Range(VALUES) : CountValue(hand, v) = n}

Highest(vs) == CHOOSE v \in vs : \A w \in vs : ValueKey[w] <= ValueKey[v]

NOfAKind(n) ==
    CASE n = 4 -> "four_of_a_kind" [] n = 3 -> "three_of_a_kind"
      [] n = 2 -> "pair"

----------------------------------------------------------------------------
(* Properties                                                              *)

\* C1: when find_winners returns on hands of at least five cards, the winners
\* are exactly the indices whose key equals the maximum key, in ascending
\* order (so two hands of equal maximal key are both returned).
CX1_WinnersAreAllHandsOfMaxKey ==
    (pc = "done" /\ AllValid) =>
        LET idxs == 0..(Len(hands) - 1)
            best == {i \in idxs : \A j \in idxs : ~KeyGt(KeyAt(j), KeyAt(i))}
        IN  winners = Ascending(best)

\* C2: for every hand of at least five cards, evaluate returns (it does not
\* raise) one of the ten categories with exactly five cards, each a card of
\* the hand and no card twice.
Thm2_EvaluateSelectsFiveCardsOfTheHand ==
    /\ \A i \in 1..Len(evaluated) :
          Valid(hands[i]) =>
              LET e == evaluated[i]
              IN  /\ e.rank \in Range(RANKS)
                  /\ Len(e.cards) = 5
                  /\ \A k \in 1..Len(e.cards) : e.cards[k] \in Range(hands[i])
                  /\ \A k, l \in 1..Len(e.cards) :
                        k # l => e.cards[k] # e.cards[l]
    /\ (pc = "raised" /\ Len(hands) > 0) => ~Valid(hands[Len(evaluated) + 1])

\* C2 witness: a seven-card hand was evaluated to Two Pair, its fifth card
\* filled in by complete_hand.
W2_SevenCardTwoPairEvaluated ==
    \E i \in 1..Len(evaluated) :
        Len(hands[i]) = 7 /\ evaluated[i].rank = "two_pairs"

\* C3: when the largest same-value cluster of a hand has exactly n cards
\* (n = 4, 3, 2) and no higher-priority category was returned, evaluate
\* returns Four of a Kind, Three of a Kind or Pair, and the selected cards
\* are that cluster followed by the highest remaining cards.
CX3_NOfAKindReturned ==
    (pc = "done") =>
        \A i \in 1..Len(hands) :
            LET hand == hands[i]
                n == LargestCluster(hand)
                e == evaluated[i]
            IN  (/\ Valid(hand)
                 /\ n \in {4, 3, 2}
                 /\ Precedence(e.rank) >= Precedence(NOfAKind(n)))
                => /\ e.rank = NOfAKind(n)
                   /\ e.cards = complete_hand(
                          arrange_by_value(hand)[Highest(ValuesHeld(hand, n))],
                          sort_by_value(hand))

\* C4: extract_straight succeeds iff the hand holds every value of one of
\* the ten runs of five consecutive values, and then selects five cards of
\* the hand, one per value of the highest run present.
CX4_StraightIffRunPresent ==
    (pc = "done") =>
        \A i \in 1..Len(hands) :
            LET hand == hands[i]
                r == extract_straight(HandEvaluator(hand))
                present == {m \in 1..Len(Runs) :
                               \A k \in 1..5 : CountValue(hand, Runs[m][k]) > 0}
            IN  Valid(hand) =>
                /\ r.ret <=> present # {}
                /\ r.ret =>
                      LET top == CHOOSE m \in present : \A o \in present : m <= o
                      IN  /\ Len(r.cards) = 5
                          /\ Range(r.cards) \subseteq Range(hand)
                          /\ {c.value : c \in Range(r.cards)} = Range(Runs[top])

\* C5: extract_flush succeeds iff some suit has five or more cards in the
\* hand, and the cards it selects share one suit.
CX5_FlushIffFiveOrMoreOfASuit ==
    (pc = "done") =>
        \A i \in 1..Len(hands) :
            LET hand == hands[i]
                r == extract_flush(HandEvaluator(hand))
            IN  Valid(hand) =>
                /\ r.ret <=> \E s \in Range(SUITS) : CountSuit(hand, s) >= 5
                /\ r.ret => all_same_suit(r.cards)

\* C6: clusters of equal size are ordered by descending value rank, so when
\* the two largest clusters both have two cards and no stronger category
\* was returned, evaluate returns Two Pair: the highest pair, the second
\* highest pair, then the highest remaining card.
CX6_TwoPairHighestPairsFirst ==
    (pc = "done") =>
        \A i \in 1..Len(hands) :
            LET hand == hands[i]
                e == evaluated[i]
                groups == group_by_same_value(arrange_by_value(hand))
                pairs == ValuesHeld(hand, 2)
                v1 == Highest(pairs)
                v2 == Highest(pairs \ {v1})
                rest == {c \in Range(hand) : c.value \notin {v1, v2}}
            IN  Valid(hand) =>
                /\ \A a, b \in 1..Len(groups) :
                      (a < b /\ Len(groups[a]) = Len(groups[b]))
                      => sort_key(groups[a][1]) > sort_key(groups[b][1])
                /\ (/\ LargestCluster(hand) = 2
                    /\ Cardinality(pairs) >= 2
                    /\ Precedence(e.rank) >= Precedence("two_pairs"))
                   => /\ e.rank = "two_pairs"
                      /\ e.cards[1].value = v1 /\ e.cards[2].value = v1
                      /\ e.cards[3].value = v2 /\ e.cards[4].value = v2
                      /\ e.cards[5] \in rest
                      /\ \A c \in rest : sort_key(c) <= sort_key(e.cards[5])

\* C7: for every permutation of the hands, find_winners on the permuted
\* sequence reports the same set of hands as winners as on the original.
CX7_SameWinnersUnderReordering ==
    (pc = "done" /\ AllValid) =>
        \A p \in Permutations(1..Len(hands)) :
            LET permuted == List([k \in 1..Len(hands) |-> hands[p[k]]])
                r == find_winners(permuted)
            IN  /\ r.exc = ""
                /\ {permuted[j + 1] : j \in Range(r.winners)}
                     = {hands[j + 1] : j \in Range(winners)}

\* C8: of two hands of at least five cards evaluated to different
\* categories, the hand of the stronger category has the strictly greater
\* key and the other hand is no winner; find_winners on just those two hands
\* returns only the index of the stronger.
Thm8_StrongerCategoryWins ==
    (pc = "done") =>
        \A i, j \in 1..Len(hands) :
            (/\ Valid(hands[i]) /\ Valid(hands[j])
             /\ Precedence(evaluated[i].rank) < Precedence(evaluated[j].rank))
            => /\ KeyGt(KeyAt(i - 1), KeyAt(j - 1))
               /\ (j - 1) \notin Range(winners)
               /\ Len(hands) = 2 => winners = <<i - 1>>

\* C8 witness: find_winners returned on two hands of different categories
\* where the hand of the stronger category holds the lower card values.
W8_StrongerCategoryWithLowerCards ==
    /\ pc = "done"
    /\ Len(hands) = 2
    /\ \E i, j \in 1..2 :
          /\ Valid(hands[i]) /\ Valid(hands[j])
          /\ Precedence(evaluated[i].rank) < Precedence(evaluated[j].rank)
          /\ ListLt(KeyAt(i - 1)[2], KeyAt(j - 1)[2])
          /\ winners = <<i - 1>>

\* C9: a hand of fewer than five cards never yields a normal result: no
\* (rank, cards) and key are computed from it, and find_winners does not
\* return a winner list for a sequence containing it.
CX9_ShortHandRejected ==
    /\ \A i \in 1..Len(evaluated) : Valid(hands[i])
    /\ pc = "done" => AllValid

\* C10: a hand holding the five cards of a run in one suit evaluates to
\* Straight Flush or Royal Flush, and to Royal Flush when the run is T to A,
\* whatever other cards it holds and in whatever order.
CX10_SuitedRunIsStraightFlush ==
    (pc = "done") =>
        \A i \in 1..Len(hands) :
            LET hand == hands[i]
                e == evaluated[i]
                suited(m, s) ==
                    \A k \in 1..5 : C(Runs[m][k], s) \in Range(hand)
            IN  Valid(hand) =>
                /\ (\E m \in 1..Len(Runs), s \in Range(SUITS) : suited(m, s))
                   => e.rank \in {"straight_flush", "royal_flush"}
                /\ (\E s \in Range(SUITS) : suited(1, s))
                   => e.rank = "royal_flush"

====
